---- MODULE Spec2Model ----
(***************************************************************************)
(* Model of the vending-machine API (src/app.py, src/tools.py): the user   *)
(* and product tables, the bearer-token decorator auth_required, and the   *)
(* request handlers.  In Spec every handler runs to completion as one      *)
(* action (one request at a time); in SpecConc the handlers that read and  *)
(* then write the store are split at their store accesses, one worker per  *)
(* concurrent request; SpecChange exercises the change loop of buy alone.  *)
(* SpecShop, SpecOwners and SpecClock start from a populated database and  *)
(* run the buyer routes, the product routes and the token checks.          *)
(*                                                                         *)
(* Strings that the code inspects character by character (the role, which  *)
(* auth_required tests with Python's substring operator `in`) are          *)
(* sequences of one-character strings.  Optional JSON fields are           *)
(* sequences of length 0 (key absent) or 1 (key present).  JSON values     *)
(* are integers and strings only: null, floats and booleans in a request   *)
(* body are outside the model.                                             *)
(***************************************************************************)
EXTENDS Integers, Sequences, FiniteSets, TLC

VARIABLES
    users,          \* table user: id -> [username, password, deposit, role]
    products,       \* table product: id -> [name, amount_available, cost, seller_id]
    nextUserId,     \* next autoincrement primary key of user
    nextProductId,  \* next autoincrement primary key of product
    tokens,         \* tokens handed out by login, held by clients
    now,            \* datetime.utcnow(), in ticks
    resp,           \* the last response sent
    workers,        \* SpecConc: worker -> its request, position and loaded rows
    chAmount,       \* SpecChange: the amount handed to the change loop
    chOut           \* SpecChange: the change computed for chAmount

vars == <<users, products, nextUserId, nextProductId, tokens, now, resp,
          workers, chAmount, chOut>>

store == <<users, products, nextUserId, nextProductId>>

(***************************************************************************)
(* Bounds of the model                                                     *)
(***************************************************************************)
MaxUsers == 2
MaxProducts == 1
MaxTokens == 2
MaxBalance == 10
MaxChangeAmount == 300
MaxStock == 2
ShopMaxBalance == 150
MaxTime == 2
ClockMaxTokens == 2
ShopMaxStock == 2
TicksPerDay == 1

(***************************************************************************)
(* Strings                                                                 *)
(***************************************************************************)
S_buyer == <<"b", "u", "y", "e", "r">>
S_seller == <<"s", "e", "l", "l", "e", "r">>
S_sell == <<"s", "e", "l", "l">>
S_bar == <<"|">>

\* Python's `needle in hay` for two str values: substring test.
StrContains(hay, needle) ==
    \E i \in 0..(Len(hay) - Len(needle)) :
        SubSeq(hay, i + 1, i + Len(needle)) = needle

\* The role argument each route hands to auth_required.
ROLE_seller == S_seller
ROLE_buyer == S_buyer
ROLE_seller_buyer == S_seller \o S_bar \o S_buyer
ROLE_buyer_seller == S_buyer \o S_bar \o S_seller

\* str.lower() on the words a header is made of.
Lower(w) ==
    CASE w = "Bearer" -> "bearer"
      [] w = "BEARER" -> "bearer"
      [] w = "Basic" -> "basic"
      [] OTHER -> w

(***************************************************************************)
(* Tokens (src/tools.py)                                                   *)
(***************************************************************************)
\* timedelta(days=1)
TokenDays == 1

TokenLifetime == TokenDays * TicksPerDay

\* jwt.encode of the payload under the server's secret.
generate_token(user_id, role) ==
    [sub |-> user_id, iat |-> now, exp |-> now + TokenLifetime, role |-> role,
     signed |-> TRUE]

\* The same payload signed with another key.
Forged(t) == [t EXCEPT !.signed = FALSE]

\* A header is absent, or the whitespace-separated parts of its value; a part
\* is a plain word or an encoded token.
NoToken == [sub |-> 0, iat |-> 0, exp |-> 0, role |-> <<>>, signed |-> FALSE]
Word(w) == [w |-> w, isjwt |-> FALSE, t |-> NoToken]
Jwt(t) == [w |-> "jwt", isjwt |-> TRUE, t |-> t]
NoHeader == [present |-> FALSE, parts |-> <<>>]
Header(parts) == [present |-> TRUE, parts |-> parts]
Bearer(t) == Header(<<Word("Bearer"), Jwt(t)>>)

\* Mutant: the exp claim is not looked at.
DecodeFails_NoExpiry(part, atExpiry) == ~part.isjwt \/ ~part.t.signed

\* jwt.decode(token, SECRET_KEY, algorithms=['HS256']): TRUE when it raises
\* InvalidTokenError.  A token whose exp equals the current time is expired
\* or not depending on the PyJWT release (atExpiry).
DecodeFails(part, atExpiry) ==
    \/ ~part.isjwt
    \/ ~part.t.signed
    \/ part.t.exp < now
    \/ part.t.exp = now /\ atExpiry

\* Mutant: request.user_id is not the subject of the token.
AuthOk_FirstUser(tok) ==
    [ok |-> TRUE, status |-> 200, error |-> "", uid |-> 1, tok |-> tok]

\* What the wrapper decided: the wrapped function is called (ok) with
\* request.user_id = uid, or the request is answered with status and error;
\* tok is the token read from the header, if one was.
AuthOk(tok) == [ok |-> TRUE, status |-> 200, error |-> "", uid |-> tok.sub, tok |-> tok]
AuthFail(status, error, tok) ==
    [ok |-> FALSE, status |-> status, error |-> error, uid |-> 0, tok |-> tok]
NoAuth == [ok |-> TRUE, status |-> 200, error |-> "", uid |-> 0, tok |-> NoToken]

\* The wrapper of auth_required(role), up to the call of the wrapped function.
auth_required(role, hdr, atExpiry) ==
    IF ~hdr.present
    THEN AuthFail(401, "Authorization header is missing", NoToken)
    ELSE IF Len(hdr.parts) = 0
    THEN AuthFail(500, "IndexError", NoToken)
    ELSE IF Lower(hdr.parts[1].w) # "bearer"
    THEN AuthFail(401, "Authorization header must start with Bearer", NoToken)
    ELSE IF Len(hdr.parts) = 1
    THEN AuthFail(401, "Token not found", NoToken)
    ELSE IF Len(hdr.parts) > 2
    THEN AuthFail(401, "Authorization header must be Bearer + token", NoToken)
    ELSE IF DecodeFails(hdr.parts[2], atExpiry)
    THEN AuthFail(401, "Token is invalid or expired", hdr.parts[2].t)
    ELSE IF ~StrContains(role, hdr.parts[2].t.role)
    THEN AuthFail(403, "User does not have the required role", hdr.parts[2].t)
    ELSE AuthOk(hdr.parts[2].t)

(***************************************************************************)
(* Tables and responses                                                    *)
(***************************************************************************)
\* sha256_crypt.encrypt / sha256_crypt.verify
Hash(p) == <<"$5$", p>>
Verify(p, digest) == digest = Hash(p)

\* session.add of a new row / session.delete of a row
Insert(table, id, row) ==
    [i \in DOMAIN table \cup {id} |-> IF i = id THEN row ELSE table[i]]
Delete(table, id) == [i \in DOMAIN table \ {id} |-> table[i]]

\* User.query.filter_by(username=username).first(): the ids it can return
ByUsername(table, username) == {i \in DOMAIN table : table[i].username = username}

\* request.json.get(key, default) on an optional field
Get(field, default) == IF Len(field) = 0 THEN default ELSE field[1]

\* A response, with what the request was: the route (op), the token read
\* from its header (tok), request.user_id (uid) and the time it was served.
Resp(op, status, error, a) ==
    [op |-> op, status |-> status, error |-> error, uid |-> a.uid, tok |-> a.tok,
     at |-> now, change |-> <<>>]

\* The response of a request that auth_required turned away.
Rejected(op, a) == Resp(op, a.status, a.error, a)

(***************************************************************************)
(* Auth routes (src/app.py)                                                *)
(***************************************************************************)
register(username, password, role) ==
    IF username = "" \/ password = ""
    THEN /\ resp' = Resp("register", 400, "Username and password are required", NoAuth)
         /\ UNCHANGED <<store, tokens>>
    ELSE IF ByUsername(users, username) # {}
    THEN /\ resp' = Resp("register", 400, "Username is already taken", NoAuth)
         /\ UNCHANGED <<store, tokens>>
    ELSE /\ users' = Insert(users, nextUserId,
                            [username |-> username, password |-> Hash(password),
                             deposit |-> 0, role |-> Get(role, S_buyer)])
         /\ nextUserId' = nextUserId + 1
         /\ resp' = Resp("register", 201, "", NoAuth)
         /\ UNCHANGED <<products, nextProductId, tokens>>

login(username, password) ==
    LET found == ByUsername(users, username) IN
    IF found = {} \/ \A i \in found : ~Verify(password, users[i].password)
    THEN /\ resp' = Resp("login", 400, "Invalid username or password", NoAuth)
         /\ UNCHANGED <<store, tokens>>
    ELSE \E i \in found :
         LET t == generate_token(i, users[i].role) IN
         /\ tokens' = tokens \cup {t}
         /\ resp' = [Resp("login", 200, "", NoAuth) EXCEPT !.uid = i]
         /\ UNCHANGED store

(***************************************************************************)
(* User routes                                                             *)
(***************************************************************************)
list_users(hdr, atExpiry) ==
    LET a == auth_required(ROLE_seller, hdr, atExpiry) IN
    /\ resp' = IF a.ok THEN Resp("list_users", 200, "", a)
               ELSE Rejected("list_users", a)
    /\ UNCHANGED <<store, tokens>>

get_user(hdr, atExpiry, user_id) ==
    LET a == auth_required(ROLE_seller_buyer, hdr, atExpiry) IN
    /\ resp' = IF ~a.ok THEN Rejected("get_user", a)
               ELSE IF user_id \notin DOMAIN users
               THEN Resp("get_user", 404, "User not found", a)
               ELSE Resp("get_user", 200, "", a)
    /\ UNCHANGED <<store, tokens>>

\* The rows product.seller_id points at user_id: db.session.delete(user) sets
\* their seller_id to NULL at flush, which the NOT NULL column refuses.
OwnedBy(user_id) == {p \in DOMAIN products : products[p].seller_id = user_id}

\* Mutant: the check that the target is the caller is skipped.
NotSelf_Never(uid, user_id) == FALSE

\* request.user_id != user_id
NotSelf(uid, user_id) == uid # user_id

delete_user(hdr, atExpiry, user_id) ==
    LET a == auth_required(ROLE_seller_buyer, hdr, atExpiry) IN
    IF ~a.ok
    THEN resp' = Rejected("delete_user", a) /\ UNCHANGED <<store, tokens>>
    ELSE IF NotSelf(a.uid, user_id)
    THEN /\ resp' = Resp("delete_user", 403, "Cannot delete another user", a)
         /\ UNCHANGED <<store, tokens>>
    ELSE IF user_id \notin DOMAIN users
    THEN /\ resp' = Resp("delete_user", 404, "User not found", a)
         /\ UNCHANGED <<store, tokens>>
    ELSE IF OwnedBy(user_id) # {}
    THEN /\ resp' = Resp("delete_user", 500, "IntegrityError", a)
         /\ UNCHANGED <<store, tokens>>
    ELSE /\ users' = Delete(users, user_id)
         /\ resp' = Resp("delete_user", 200, "", a)
         /\ UNCHANGED <<products, nextUserId, nextProductId, tokens>>

(***************************************************************************)
(* Product routes                                                          *)
(***************************************************************************)
list_products ==
    /\ resp' = Resp("list_products", 200, "", NoAuth)
    /\ UNCHANGED <<store, tokens>>

get_product(hdr, atExpiry, product_id) ==
    LET a == auth_required(ROLE_buyer_seller, hdr, atExpiry) IN
    /\ resp' = IF ~a.ok THEN Rejected("get_product", a)
               ELSE IF product_id \notin DOMAIN products
               THEN Resp("get_product", 404, "Product not found", a)
               ELSE Resp("get_product", 200, "", a)
    /\ UNCHANGED <<store, tokens>>

\* Python's truth value of an optional integer / string field (None when absent)
TruthyInt(field) == Len(field) = 1 /\ field[1] # 0
TruthyStr(field) == Len(field) = 1 /\ field[1] # ""

create_product(hdr, atExpiry, amount_available, cost, name) ==
    LET a == auth_required(ROLE_seller, hdr, atExpiry) IN
    IF ~a.ok
    THEN resp' = Rejected("create_product", a) /\ UNCHANGED <<store, tokens>>
    ELSE IF ~(TruthyInt(<<Get(amount_available, 0)>>) /\ TruthyInt(cost) /\ TruthyStr(name))
    THEN /\ resp' = Resp("create_product", 404, "All fields are required", a)
         /\ UNCHANGED <<store, tokens>>
    ELSE IF a.uid \notin DOMAIN users
    THEN /\ resp' = Resp("create_product", 404, "Seller not found", a)
         /\ UNCHANGED <<store, tokens>>
    ELSE /\ products' = Insert(products, nextProductId,
                               [name |-> name[1], amount_available |-> amount_available[1],
                                cost |-> cost[1], seller_id |-> a.uid])
         /\ nextProductId' = nextProductId + 1
         /\ resp' = Resp("create_product", 201, "", a)
         /\ UNCHANGED <<users, nextUserId, tokens>>

\* Mutant: the ownership check is skipped.
NotOwner_Never(product, uid) == FALSE

\* product.seller_id != request.user_id
NotOwner(product, uid) == product.seller_id # uid

update_product(hdr, atExpiry, product_id, amount_available, cost, name) ==
    LET a == auth_required(ROLE_seller, hdr, atExpiry) IN
    IF ~a.ok
    THEN resp' = Rejected("update_product", a) /\ UNCHANGED <<store, tokens>>
    ELSE IF product_id \notin DOMAIN products
    THEN /\ resp' = Resp("update_product", 404, "Product not found", a)
         /\ UNCHANGED <<store, tokens>>
    ELSE IF NotOwner(products[product_id], a.uid)
    THEN /\ resp' = Resp("update_product", 403, "Cannot update another seller's product", a)
         /\ UNCHANGED <<store, tokens>>
    ELSE IF a.uid \notin DOMAIN users
    THEN /\ resp' = Resp("update_product", 404, "Seller not found", a)
         /\ UNCHANGED <<store, tokens>>
    ELSE LET product == products[product_id] IN
         /\ products' = [products EXCEPT ![product_id] =
                [name |-> Get(name, product.name),
                 amount_available |-> Get(amount_available, product.amount_available),
                 cost |-> Get(cost, product.cost),
                 seller_id |-> a.uid]]
         /\ resp' = Resp("update_product", 200, "", a)
         /\ UNCHANGED <<users, nextUserId, nextProductId, tokens>>

delete_product(hdr, atExpiry, product_id) ==
    LET a == auth_required(ROLE_seller, hdr, atExpiry) IN
    IF ~a.ok
    THEN resp' = Rejected("delete_product", a) /\ UNCHANGED <<store, tokens>>
    ELSE IF product_id \notin DOMAIN products
    THEN /\ resp' = Resp("delete_product", 404, "Product not found", a)
         /\ UNCHANGED <<store, tokens>>
    ELSE IF NotOwner(products[product_id], a.uid)
    THEN /\ resp' = Resp("delete_product", 403, "Cannot delete another seller's product", a)
         /\ UNCHANGED <<store, tokens>>
    ELSE /\ products' = Delete(products, product_id)
         /\ resp' = Resp("delete_product", 200, "", a)
         /\ UNCHANGED <<users, nextUserId, nextProductId, tokens>>

(***************************************************************************)
(* Buyer routes                                                            *)
(***************************************************************************)
\* Mutant: a coin outside the denominations is accepted.
Coins_WithSeven == {5, 7, 10, 20, 50, 100}

\* The list deposit accepts coins from.
Coins == {5, 10, 20, 50, 100}

deposit(hdr, atExpiry, coin) ==
    LET a == auth_required(ROLE_buyer, hdr, atExpiry) IN
    IF ~a.ok
    THEN resp' = Rejected("deposit", a) /\ UNCHANGED <<store, tokens>>
    ELSE IF coin \notin Coins
    THEN /\ resp' = Resp("deposit", 400, "Invalid coin", a)
         /\ UNCHANGED <<store, tokens>>
    ELSE IF a.uid \notin DOMAIN users
    THEN /\ resp' = Resp("deposit", 404, "User not found", a)
         /\ UNCHANGED <<store, tokens>>
    ELSE /\ users' = [users EXCEPT ![a.uid].deposit = @ + coin]
         /\ resp' = Resp("deposit", 200, "", a)
         /\ UNCHANGED <<products, nextUserId, nextProductId, tokens>>

\* coins = [100, 50, 20, 10, 5]
ChangeCoins == <<100, 50, 20, 10, 5>>

\* [coin] * count
Repeat(coin, count) == [i \in 1..count |-> coin]

\* Mutant: one copy of each coin that fits, instead of count copies.
RECURSIVE ChangeLoop_OneEach(_, _, _)
ChangeLoop_OneEach(coins, remaining, change) ==
    IF coins = <<>> THEN change
    ELSE LET coin == Head(coins)
             count == remaining \div coin
         IN IF count > 0
            THEN ChangeLoop_OneEach(Tail(coins), remaining - coin, change \o <<coin>>)
            ELSE ChangeLoop_OneEach(Tail(coins), remaining, change)

\* for coin in coins: count = remaining // coin; if count > 0: ...
RECURSIVE ChangeLoop(_, _, _)
ChangeLoop(coins, remaining, change) ==
    IF coins = <<>> THEN change
    ELSE LET coin == Head(coins)
             count == remaining \div coin
         IN IF count > 0
            THEN ChangeLoop(Tail(coins), remaining - count * coin,
                            change \o Repeat(coin, count))
            ELSE ChangeLoop(Tail(coins), remaining, change)

\* The change buy returns for a balance.
Change(remaining) == ChangeLoop(ChangeCoins, remaining, <<>>)

\* Mutant: the funds check is skipped.
InsufficientFunds_Never(user, product, amount) == FALSE
\* Mutant: the stock is left as it was loaded.
Decremented_Not(product, amount) == product.amount_available
\* Mutant: the unit cost is debited, whatever the amount.
Debited_UnitCost(user, product, amount) == user.deposit - product.cost

\* Mutant: the stock check is skipped.
InsufficientStock_Never(product, amount) == FALSE

\* The checks and the writes of buy, on the rows it loaded.
InsufficientStock(product, amount) == product.amount_available < amount
InsufficientFunds(user, product, amount) == user.deposit < amount * product.cost
Debited(user, product, amount) == user.deposit - amount * product.cost
Decremented(product, amount) == product.amount_available - amount

buy(hdr, atExpiry, product_id, amount_field) ==
    LET a == auth_required(ROLE_buyer, hdr, atExpiry)
        amount == Get(amount_field, 1)
    IN
    IF ~a.ok
    THEN resp' = Rejected("buy", a) /\ UNCHANGED <<store, tokens>>
    ELSE IF a.uid \notin DOMAIN users
    THEN /\ resp' = Resp("buy", 404, "User not found", a)
         /\ UNCHANGED <<store, tokens>>
    ELSE IF Len(product_id) = 0 \/ product_id[1] \notin DOMAIN products
    THEN /\ resp' = Resp("buy", 404, "Product not found", a)
         /\ UNCHANGED <<store, tokens>>
    ELSE LET user == users[a.uid]
             product == products[product_id[1]]
         IN
         IF InsufficientStock(product, amount)
         THEN /\ resp' = Resp("buy", 400, "Insufficient products available", a)
              /\ UNCHANGED <<store, tokens>>
         ELSE IF InsufficientFunds(user, product, amount)
         THEN /\ resp' = Resp("buy", 400, "Insufficient funds", a)
              /\ UNCHANGED <<store, tokens>>
         ELSE /\ users' = [users EXCEPT ![a.uid].deposit = Debited(user, product, amount)]
              /\ products' = [products EXCEPT ![product_id[1]].amount_available =
                                Decremented(product, amount)]
              /\ resp' = [Resp("buy", 200, "", a) EXCEPT
                            !.change = Change(users'[a.uid].deposit)]
              /\ UNCHANGED <<nextUserId, nextProductId, tokens>>

\* Mutant: every balance is reset.
ResetBalance_All(table, uid) == [i \in DOMAIN table |-> [table[i] EXCEPT !.deposit = 0]]

\* user.deposit = 0
ResetBalance(table, uid) == [table EXCEPT ![uid].deposit = 0]

reset_deposit(hdr, atExpiry) ==
    LET a == auth_required(ROLE_buyer, hdr, atExpiry) IN
    IF ~a.ok
    THEN resp' = Rejected("reset", a) /\ UNCHANGED <<store, tokens>>
    ELSE IF a.uid \notin DOMAIN users
    THEN /\ resp' = Resp("reset", 404, "User not found", a)
         /\ UNCHANGED <<store, tokens>>
    ELSE /\ users' = ResetBalance(users, a.uid)
         /\ resp' = Resp("reset", 200, "", a)
         /\ UNCHANGED <<products, nextUserId, nextProductId, tokens>>

(***************************************************************************)
(* Requests: the inputs tried                                              *)
(***************************************************************************)
\* (username, role field) pairs of the register bodies tried; the empty
\* username stands for a missing one.
RegisterBodies ==
    { <<"alice", <<S_buyer>>>>, <<"bob", <<>>>>, <<"carol", <<S_seller>>>>,
      <<"dave", <<S_sell>>>>, <<"", <<S_buyer>>>> }
Passwords == {"pw", ""}
Usernames == {b[1] : b \in RegisterBodies}

\* The Authorization headers clients send around a token they hold, or none.
TokenHeaders == {Bearer(t) : t \in tokens}
ClientHeaders == TokenHeaders \cup {NoHeader}

\* The headers the wrapper turns away whatever the token: every shape it
\* tells apart, and tokens signed with another key.
BadHeaders ==
    { NoHeader, Header(<<>>), Header(<<Word("Bearer")>>),
      Header(<<Word("Basic"), Word("abc")>>),
      Header(<<Word("Bearer"), Word("abc")>>),
      Header(<<Word("Bearer"), Word("abc"), Word("x")>>) }
    \cup {Bearer(Forged(t)) : t \in tokens}

\* The PyJWT releases differ only on a token presented at its exp.
AtExpiry(h) ==
    IF Len(h.parts) >= 2 /\ h.parts[2].isjwt /\ h.parts[2].t.exp = now
    THEN BOOLEAN ELSE {FALSE}

UserIdInputs == 1..MaxUsers
ProductIdInputs == 1..MaxProducts
BuyProductInputs == {<<>>} \cup {<<p>> : p \in ProductIdInputs}
BuyAmountInputs == {<<>>, <<2>>, <<-1>>}
CoinInputs == {5, 10, 7}
\* (amount_available, cost, name) fields of the product bodies tried
CreateBodies ==
    { <<<<1>>, <<5>>, <<"cola">>>>, <<<<2>>, <<3>>, <<"cola">>>>,
      <<<<>>, <<5>>, <<"cola">>>> }
UpdateBodies ==
    { <<<<-1>>, <<>>, <<>>>>, <<<<2>>, <<5>>, <<>>>>, <<<<>>, <<-5>>, <<>>>> }

\* The part of the state a request of Spec leaves alone.
Rest == <<now, workers, chAmount, chOut>>

\* The model's bounds on what a step may produce.
Bounded ==
    /\ nextUserId' <= MaxUsers + 1
    /\ nextProductId' <= MaxProducts + 1
    /\ Cardinality(tokens') <= MaxTokens
    /\ \A u \in DOMAIN users' : users'[u].deposit <= MaxBalance
    /\ \A p \in DOMAIN products' : products'[p].amount_available <= MaxStock

NoResp == Resp("", 0, "", NoAuth)
NoChange == [done |-> FALSE, change |-> <<>>]
NoUserRow == [username |-> "", password |-> <<>>, deposit |-> 0, role |-> <<>>]
NoProductRow == [name |-> "", amount_available |-> 0, cost |-> 0, seller_id |-> 0]
Idle == <<>>

Init ==
    /\ users = <<>>
    /\ products = <<>>
    /\ nextUserId = 1
    /\ nextProductId = 1
    /\ tokens = {}
    /\ now = 0
    /\ resp = NoResp
    /\ workers = Idle
    /\ chAmount = 0
    /\ chOut = NoChange

Next ==
    \/ \E b \in RegisterBodies, p \in Passwords :
          register(b[1], p, b[2]) /\ Bounded /\ UNCHANGED Rest
    \/ \E u \in Usernames, p \in Passwords :
          login(u, p) /\ Bounded /\ UNCHANGED Rest
    \/ \E h \in ClientHeaders : \E x \in AtExpiry(h) :
          list_users(h, x) /\ UNCHANGED Rest
    \/ \E h \in ClientHeaders : \E x \in AtExpiry(h), i \in UserIdInputs :
          get_user(h, x, i) /\ UNCHANGED Rest
    \/ \E h \in ClientHeaders : \E x \in AtExpiry(h), i \in UserIdInputs :
          delete_user(h, x, i) /\ UNCHANGED Rest
    \/ list_products /\ UNCHANGED Rest
    \/ \E h \in ClientHeaders : \E x \in AtExpiry(h), i \in ProductIdInputs :
          get_product(h, x, i) /\ UNCHANGED Rest
    \/ \E h \in ClientHeaders : \E x \in AtExpiry(h), b \in CreateBodies :
          create_product(h, x, b[1], b[2], b[3]) /\ Bounded /\ UNCHANGED Rest
    \/ \E h \in ClientHeaders :
          \E x \in AtExpiry(h), i \in ProductIdInputs, b \in UpdateBodies :
          update_product(h, x, i, b[1], b[2], b[3]) /\ Bounded /\ UNCHANGED Rest
    \/ \E h \in ClientHeaders : \E x \in AtExpiry(h), i \in ProductIdInputs :
          delete_product(h, x, i) /\ UNCHANGED Rest
    \/ \E h \in ClientHeaders : \E x \in AtExpiry(h), c \in CoinInputs :
          deposit(h, x, c) /\ Bounded /\ UNCHANGED Rest
    \/ \E h \in ClientHeaders :
          \E x \in AtExpiry(h), i \in BuyProductInputs, n \in BuyAmountInputs :
          buy(h, x, i, n) /\ Bounded /\ UNCHANGED Rest
    \/ \E h \in ClientHeaders : \E x \in AtExpiry(h) :
          reset_deposit(h, x) /\ UNCHANGED Rest

\* Every request, one at a time, from the empty database.
Spec == Init /\ [][Next]_vars

(***************************************************************************)
(* SpecShop: two buyers and a seller with one product; one buyer and the   *)
(* seller are logged in.  The buyer routes, the seller's updates and the   *)
(* deletion of one's own account, with the full coin range.                *)
(***************************************************************************)
ShopUsers ==
    <<[username |-> "alice", password |-> Hash("pw"), deposit |-> 0, role |-> S_buyer],
      [username |-> "bob", password |-> Hash("pw"), deposit |-> 30, role |-> S_buyer],
      [username |-> "carol", password |-> Hash("pw"), deposit |-> 0, role |-> S_seller]>>
ShopProducts ==
    <<[name |-> "cola", amount_available |-> 2, cost |-> 50, seller_id |-> 3]>>

ShopCoinInputs == {5, 10, 20, 50, 100, 7}
ShopAmountInputs == {<<>>, <<2>>, <<3>>}
\* product_id absent, of the product, of no product
ShopProductInputs == {<<>>, <<1>>, <<2>>}
ShopUpdateBodies == { <<<<2>>, <<>>, <<>>>>, <<<<>>, <<5>>, <<>>>>, <<<<>>, <<50>>, <<>>>> }

ShopBounded ==
    /\ \A u \in DOMAIN users' : users'[u].deposit <= ShopMaxBalance
    /\ \A p \in DOMAIN products' : products'[p].amount_available <= ShopMaxStock

InitShop ==
    /\ users = ShopUsers
    /\ products = ShopProducts
    /\ nextUserId = 4
    /\ nextProductId = 2
    /\ now = 0
    /\ tokens = {generate_token(i, ShopUsers[i].role) : i \in {1, 3}}
    /\ resp = NoResp
    /\ workers = Idle
    /\ chAmount = 0
    /\ chOut = NoChange

NextShop ==
    \/ \E h \in ClientHeaders, c \in ShopCoinInputs :
          deposit(h, FALSE, c) /\ ShopBounded /\ UNCHANGED Rest
    \/ \E h \in ClientHeaders, i \in ShopProductInputs, n \in ShopAmountInputs :
          buy(h, FALSE, i, n) /\ ShopBounded /\ UNCHANGED Rest
    \/ \E h \in ClientHeaders : reset_deposit(h, FALSE) /\ UNCHANGED Rest
    \/ \E h \in ClientHeaders, b \in ShopUpdateBodies :
          update_product(h, FALSE, 1, b[1], b[2], b[3]) /\ ShopBounded /\ UNCHANGED Rest
    \/ \E h \in ClientHeaders, i \in DOMAIN ShopUsers :
          delete_user(h, FALSE, i) /\ UNCHANGED Rest

SpecShop == InitShop /\ [][NextShop]_vars

(***************************************************************************)
(* SpecOwners: two sellers and a buyer, all logged in, and one product of   *)
(* the first seller.  The product routes that write.                       *)
(***************************************************************************)
OwnerMaxProducts == 2

OwnerUsers ==
    <<[username |-> "alice", password |-> Hash("pw"), deposit |-> 10, role |-> S_buyer],
      [username |-> "carol", password |-> Hash("pw"), deposit |-> 0, role |-> S_seller],
      [username |-> "erin", password |-> Hash("pw"), deposit |-> 0, role |-> S_seller]>>
OwnerProducts ==
    <<[name |-> "cola", amount_available |-> 1, cost |-> 5, seller_id |-> 2]>>

OwnerProductIds == 1..OwnerMaxProducts
OwnerCreateBodies == { <<<<1>>, <<5>>, <<"cola">>>>, <<<<>>, <<5>>, <<"cola">>>> }
OwnerUpdateBodies == { <<<<2>>, <<>>, <<>>>>, <<<<>>, <<>>, <<"soda">>>> }

OwnersBounded == nextProductId' <= OwnerMaxProducts + 1

InitOwners ==
    /\ users = OwnerUsers
    /\ products = OwnerProducts
    /\ nextUserId = 4
    /\ nextProductId = 2
    /\ now = 0
    /\ tokens = {generate_token(i, OwnerUsers[i].role) : i \in DOMAIN OwnerUsers}
    /\ resp = NoResp
    /\ workers = Idle
    /\ chAmount = 0
    /\ chOut = NoChange

NextOwners ==
    \/ \E h \in ClientHeaders, b \in OwnerCreateBodies :
          create_product(h, FALSE, b[1], b[2], b[3]) /\ OwnersBounded /\ UNCHANGED Rest
    \/ \E h \in ClientHeaders, i \in OwnerProductIds, b \in OwnerUpdateBodies :
          update_product(h, FALSE, i, b[1], b[2], b[3]) /\ UNCHANGED Rest
    \/ \E h \in ClientHeaders, i \in OwnerProductIds :
          delete_product(h, FALSE, i) /\ UNCHANGED Rest

SpecOwners == InitOwners /\ [][NextOwners]_vars

(***************************************************************************)
(* SpecClock: the wrapper under passing time.  Registered users log in at  *)
(* any time and present their tokens, fresh or expired, forged, or in a    *)
(* malformed header, to one route per role argument.                       *)
(***************************************************************************)
ClockUsers ==
    <<[username |-> "alice", password |-> Hash("pw"), deposit |-> 30, role |-> S_buyer],
      [username |-> "bob", password |-> Hash("pw"), deposit |-> 30, role |-> S_buyer],
      [username |-> "carol", password |-> Hash("pw"), deposit |-> 0, role |-> S_seller]>>

ClockLogins == {"alice", "carol"}
ClockHeaders == TokenHeaders \cup BadHeaders
ClockCoinInputs == {7, 100}

ClockBounded ==
    /\ Cardinality(tokens') <= ClockMaxTokens
    /\ \A u \in DOMAIN users' : users'[u].deposit <= ShopMaxBalance

\* Time passes.
Tick ==
    /\ now < MaxTime
    /\ now' = now + 1
    /\ UNCHANGED <<store, tokens, resp, workers, chAmount, chOut>>

InitClock ==
    /\ users = ClockUsers
    /\ products = ShopProducts
    /\ nextUserId = 4
    /\ nextProductId = 2
    /\ tokens = {}
    /\ now = 0
    /\ resp = NoResp
    /\ workers = Idle
    /\ chAmount = 0
    /\ chOut = NoChange

NextClock ==
    \/ \E u \in ClockLogins : login(u, "pw") /\ ClockBounded /\ UNCHANGED Rest
    \/ \E h \in ClockHeaders : \E x \in AtExpiry(h) :
          list_users(h, x) /\ UNCHANGED Rest
    \/ \E h \in ClockHeaders : \E x \in AtExpiry(h) :
          get_user(h, x, 2) /\ UNCHANGED Rest
    \/ \E h \in ClockHeaders : \E x \in AtExpiry(h) :
          get_product(h, x, 1) /\ UNCHANGED Rest
    \/ \E h \in ClockHeaders : \E x \in AtExpiry(h), c \in ClockCoinInputs :
          deposit(h, x, c) /\ ClockBounded /\ UNCHANGED Rest
    \/ \E h \in ClockHeaders : \E x \in AtExpiry(h) :
          reset_deposit(h, x) /\ UNCHANGED Rest
    \/ Tick

SpecClock == InitClock /\ [][NextClock]_vars

(***************************************************************************)
(* SpecConc: concurrent requests.  Each worker serves one request; a       *)
(* handler is split at its store accesses: each query reads the committed  *)
(* rows of that moment into the worker's session, and db.session.commit()  *)
(* writes the attributes the handler assigned, computed from the rows it    *)
(* loaded.                                                                 *)
(***************************************************************************)
Workers == {"w1", "w2"}

IdleWorker ==
    [pc |-> "idle", op |-> "", uid |-> 0, tok |-> NoToken, product_id |-> <<>>,
     amount |-> 0, coin |-> 0, username |-> "", password |-> "", role |-> <<>>,
     user |-> NoUserRow, product |-> NoProductRow,
     status |-> 0, error |-> "", change |-> <<>>]

ConcUsers ==
    <<[username |-> "alice", password |-> Hash("pw"), deposit |-> 10, role |-> S_buyer],
      [username |-> "bob", password |-> Hash("pw"), deposit |-> 10, role |-> S_buyer],
      [username |-> "carol", password |-> Hash("pw"), deposit |-> 0, role |-> S_seller]>>
ConcProducts ==
    <<[name |-> "cola", amount_available |-> 1, cost |-> 5, seller_id |-> 3]>>
ConcAmountInputs == {<<>>, <<2>>}
ConcProductInputs == {<<1>>, <<2>>}
ConcCoinInputs == {5, 7}
\* "alice" is taken; "Alice" differs from it in case only.
ConcRegisterNames == {"alice", "Alice", "zed", ""}
\* A buyer who logged in and then deleted the account.
ConcGone == [sub |-> 4, role |-> S_buyer]

\* The worker answers: its request is over.
Answer(w, status, error, change) ==
    /\ workers' = [workers EXCEPT ![w].pc = "done", ![w].status = status,
                                  ![w].error = error, ![w].change = change]
    /\ resp' = [op |-> workers[w].op, status |-> status, error |-> error,
                uid |-> workers[w].uid, tok |-> workers[w].tok, at |-> now,
                change |-> change]

\* buy: the wrapper and the reading of the request body.
buy_begin(w, hdr, atExpiry, product_id, amount_field) ==
    LET a == auth_required(ROLE_buyer, hdr, atExpiry)
        started == [workers[w] EXCEPT !.op = "buy", !.uid = a.uid, !.tok = a.tok,
                                      !.product_id = product_id,
                                      !.amount = Get(amount_field, 1)]
    IN
    /\ workers[w].pc = "idle"
    /\ IF a.ok
       THEN /\ workers' = [workers EXCEPT ![w] = [started EXCEPT !.pc = "get_user"]]
            /\ UNCHANGED resp
       ELSE /\ workers' = [workers EXCEPT ![w] =
                   [started EXCEPT !.pc = "done", !.status = a.status, !.error = a.error]]
            /\ resp' = Rejected("buy", a)
    /\ UNCHANGED <<store, tokens, now, chAmount, chOut>>

\* buy: user = User.query.get(user_id)
buy_get_user(w) ==
    /\ workers[w].pc = "get_user" /\ workers[w].op = "buy"
    /\ IF workers[w].uid \notin DOMAIN users
       THEN Answer(w, 404, "User not found", <<>>)
       ELSE /\ workers' = [workers EXCEPT ![w].pc = "get_product",
                                          ![w].user = users[workers[w].uid]]
            /\ UNCHANGED resp
    /\ UNCHANGED <<store, tokens, now, chAmount, chOut>>

\* buy: product = Product.query.get(product_id), and the two checks
buy_get_product(w) ==
    LET me == workers[w] IN
    /\ me.pc = "get_product" /\ me.op = "buy"
    /\ IF Len(me.product_id) = 0 \/ me.product_id[1] \notin DOMAIN products
       THEN Answer(w, 404, "Product not found", <<>>)
       ELSE LET product == products[me.product_id[1]] IN
            IF InsufficientStock(product, me.amount)
            THEN Answer(w, 400, "Insufficient products available", <<>>)
            ELSE IF InsufficientFunds(me.user, product, me.amount)
            THEN Answer(w, 400, "Insufficient funds", <<>>)
            ELSE /\ workers' = [workers EXCEPT ![w].pc = "commit", ![w].product = product]
                 /\ UNCHANGED resp
    /\ UNCHANGED <<store, tokens, now, chAmount, chOut>>

\* buy: the two assignments and db.session.commit(): one UPDATE per row, of
\* the values computed from the loaded rows; a row deleted meanwhile makes
\* the flush fail.
buy_commit(w) ==
    LET me == workers[w] IN
    /\ me.pc = "commit" /\ me.op = "buy"
    /\ IF me.uid \notin DOMAIN users \/ me.product_id[1] \notin DOMAIN products
       THEN Answer(w, 500, "StaleDataError", <<>>) /\ UNCHANGED store
       ELSE /\ users' = [users EXCEPT ![me.uid].deposit =
                            Debited(me.user, me.product, me.amount)]
            /\ products' = [products EXCEPT ![me.product_id[1]].amount_available =
                               Decremented(me.product, me.amount)]
            /\ workers' = [workers EXCEPT ![w].pc = "respond"]
            /\ UNCHANGED <<resp, nextUserId, nextProductId>>
    /\ UNCHANGED <<tokens, now, chAmount, chOut>>

\* buy: the change loop on user.deposit, reloaded after the commit
buy_respond(w) ==
    LET me == workers[w] IN
    /\ me.pc = "respond" /\ me.op = "buy"
    /\ IF me.uid \notin DOMAIN users \/ me.product_id[1] \notin DOMAIN products
       THEN Answer(w, 500, "ObjectDeletedError", <<>>)
       ELSE Answer(w, 200, "", Change(users[me.uid].deposit))
    /\ UNCHANGED <<store, tokens, now, chAmount, chOut>>

\* deposit: the wrapper and the coin test.
deposit_begin(w, hdr, atExpiry, coin) ==
    LET a == auth_required(ROLE_buyer, hdr, atExpiry)
        started == [workers[w] EXCEPT !.op = "deposit", !.uid = a.uid, !.tok = a.tok,
                                      !.coin = coin]
    IN
    /\ workers[w].pc = "idle"
    /\ IF ~a.ok
       THEN /\ workers' = [workers EXCEPT ![w] =
                   [started EXCEPT !.pc = "done", !.status = a.status, !.error = a.error]]
            /\ resp' = Rejected("deposit", a)
       ELSE IF coin \notin Coins
       THEN /\ workers' = [workers EXCEPT ![w] =
                   [started EXCEPT !.pc = "done", !.status = 400, !.error = "Invalid coin"]]
            /\ resp' = Resp("deposit", 400, "Invalid coin", a)
       ELSE /\ workers' = [workers EXCEPT ![w] = [started EXCEPT !.pc = "get_user"]]
            /\ UNCHANGED resp
    /\ UNCHANGED <<store, tokens, now, chAmount, chOut>>

\* deposit: user = User.query.get(user_id)
deposit_get_user(w) ==
    /\ workers[w].pc = "get_user" /\ workers[w].op = "deposit"
    /\ IF workers[w].uid \notin DOMAIN users
       THEN Answer(w, 404, "User not found", <<>>)
       ELSE /\ workers' = [workers EXCEPT ![w].pc = "commit",
                                          ![w].user = users[workers[w].uid]]
            /\ UNCHANGED resp
    /\ UNCHANGED <<store, tokens, now, chAmount, chOut>>

\* deposit: user.deposit += coin and db.session.commit(): an UPDATE of the
\* value computed from the loaded row.
deposit_commit(w) ==
    LET me == workers[w] IN
    /\ me.pc = "commit" /\ me.op = "deposit"
    /\ IF me.uid \notin DOMAIN users
       THEN Answer(w, 500, "StaleDataError", <<>>) /\ UNCHANGED store
       ELSE /\ users' = [users EXCEPT ![me.uid].deposit = me.user.deposit + me.coin]
            /\ Answer(w, 200, "", <<>>)
            /\ UNCHANGED <<products, nextUserId, nextProductId>>
    /\ UNCHANGED <<tokens, now, chAmount, chOut>>

\* register: the reading of the request body and the test of its fields.
register_begin(w, username, password, role) ==
    LET started == [workers[w] EXCEPT !.op = "register", !.username = username,
                                      !.password = password, !.role = role]
    IN
    /\ workers[w].pc = "idle"
    /\ IF username = "" \/ password = ""
       THEN /\ workers' = [workers EXCEPT ![w] =
                   [started EXCEPT !.pc = "done", !.status = 400,
                                   !.error = "Username and password are required"]]
            /\ resp' = Resp("register", 400, "Username and password are required", NoAuth)
       ELSE /\ workers' = [workers EXCEPT ![w] = [started EXCEPT !.pc = "find_user"]]
            /\ UNCHANGED resp
    /\ UNCHANGED <<store, tokens, now, chAmount, chOut>>

\* register: existing_user = User.query.filter_by(username=username).first()
register_find_user(w) ==
    /\ workers[w].pc = "find_user" /\ workers[w].op = "register"
    /\ IF ByUsername(users, workers[w].username) # {}
       THEN Answer(w, 400, "Username is already taken", <<>>)
       ELSE workers' = [workers EXCEPT ![w].pc = "commit"] /\ UNCHANGED resp
    /\ UNCHANGED <<store, tokens, now, chAmount, chOut>>

\* Mutant: the username column has no unique constraint.
UniqueViolation_Never(table, username) == FALSE

\* username = db.Column(db.String(80), unique=True, ...): the INSERT of a
\* username that a committed row holds raises IntegrityError.
UniqueViolation(table, username) == ByUsername(table, username) # {}

\* register: db.session.add(user) and db.session.commit()
register_commit(w) ==
    LET me == workers[w] IN
    /\ me.pc = "commit" /\ me.op = "register"
    /\ IF UniqueViolation(users, me.username)
       THEN Answer(w, 500, "IntegrityError", <<>>) /\ UNCHANGED store
       ELSE /\ users' = Insert(users, nextUserId,
                               [username |-> me.username, password |-> Hash(me.password),
                                deposit |-> 0, role |-> Get(me.role, S_buyer)])
            /\ nextUserId' = nextUserId + 1
            /\ Answer(w, 201, "", <<>>)
            /\ UNCHANGED <<products, nextProductId>>
    /\ UNCHANGED <<tokens, now, chAmount, chOut>>

InitConc ==
    /\ users = ConcUsers
    /\ products = ConcProducts
    /\ nextUserId = ConcGone.sub + 1
    /\ nextProductId = 2
    /\ now = 0
    /\ tokens = {generate_token(i, ConcUsers[i].role) : i \in {1, 2}}
                \cup {generate_token(ConcGone.sub, ConcGone.role)}
    /\ resp = NoResp
    /\ workers = [w \in Workers |-> IdleWorker]
    /\ chAmount = 0
    /\ chOut = NoChange

NextConc ==
    \/ \E w \in Workers, h \in ClientHeaders, i \in ConcProductInputs,
             n \in ConcAmountInputs :
          buy_begin(w, h, FALSE, i, n)
    \/ \E w \in Workers : buy_get_user(w)
    \/ \E w \in Workers : buy_get_product(w)
    \/ \E w \in Workers : buy_commit(w)
    \/ \E w \in Workers : buy_respond(w)
    \/ \E w \in Workers, h \in ClientHeaders, c \in ConcCoinInputs :
          deposit_begin(w, h, FALSE, c)
    \/ \E w \in Workers : deposit_get_user(w)
    \/ \E w \in Workers : deposit_commit(w)
    \/ \E w \in Workers, u \in ConcRegisterNames : register_begin(w, u, "pw", <<>>)
    \/ \E w \in Workers : register_find_user(w)
    \/ \E w \in Workers : register_commit(w)

SpecConc == InitConc /\ [][NextConc]_vars

(***************************************************************************)
(* SpecChange: the change loop of buy on amounts built from coins.         *)
(***************************************************************************)
AddCoin(c) ==
    /\ chAmount + c <= MaxChangeAmount
    /\ chAmount' = chAmount + c
    /\ chOut' = NoChange
    /\ UNCHANGED <<store, tokens, now, resp, workers>>

ComputeChange ==
    /\ chOut' = [done |-> TRUE, change |-> Change(chAmount)]
    /\ UNCHANGED <<store, tokens, now, resp, workers, chAmount>>

NextChange ==
    \/ \E c \in Coins : AddCoin(c)
    \/ ComputeChange

SpecChange == Init /\ [][NextChange]_vars

(***************************************************************************)
(* Properties                                                              *)
(***************************************************************************)
RECURSIVE SumSeq(_)
SumSeq(q) == IF q = <<>> THEN 0 ELSE Head(q) + SumSeq(Tail(q))

Denominations == {5, 10, 20, 50, 100}

BuyOk(r) == r.op = "buy" /\ r.status = 200

\* C3: for an amount that is a sum of coins of {5,10,20,50,100}, the change
\* sums to the amount, holds only those denominations, and never increases.
C3_ChangeExact ==
    chOut.done =>
        /\ SumSeq(chOut.change) = chAmount
        /\ \A i \in 1..Len(chOut.change) : chOut.change[i] \in Denominations
        /\ \A i \in 1..Len(chOut.change) - 1 : chOut.change[i] >= chOut.change[i + 1]

C3_Witness ==
    chOut.done /\ chAmount = 295 /\ chOut.change = <<100, 100, 50, 20, 20, 5>>

\* C4 as claimed: the change of every successful buy sums to the buyer's
\* resulting balance.
C4_ChangeSumsToBalance ==
    BuyOk(resp) => SumSeq(resp.change) = users[resp.uid].deposit

\* C5: a successful buy of amount units at unit cost c leaves balance
\* b - amount*c and stock s - amount, changes nothing else in the tables, and
\* returns the greedy change of the new balance, which stays stored.
C5_BuyEffect ==
    [][BuyOk(resp') =>
        \A h \in ClientHeaders, i \in ShopProductInputs, n \in ShopAmountInputs :
            (buy(h, FALSE, i, n) /\ UNCHANGED Rest) =>
                LET u == h.parts[2].t.sub
                    amount == IF n = <<>> THEN 1 ELSE n[1]
                    b == users[u].deposit
                    c == products[i[1]].cost
                    sk == products[i[1]].amount_available
                IN /\ users' = [users EXCEPT ![u].deposit = b - amount * c]
                   /\ products' = [products EXCEPT ![i[1]].amount_available = sk - amount]
                   /\ resp'.change = Change(b - amount * c)
                   /\ SumSeq(resp'.change) = users'[u].deposit]_vars

C5_Witness ==
    /\ BuyOk(resp) /\ resp.uid = 1 /\ resp.change = <<50>>
    /\ users[1].deposit = 50
    /\ products[1].cost = 50 /\ products[1].amount_available = 0

\* C6: a deposit of a coin outside {5,10,20,50,100} is answered 400 "Invalid
\* coin" and changes no balance; a deposit of a coin of the set adds exactly
\* that coin to the caller's balance and changes nothing else.
C6_Deposit ==
    [][resp'.op = "deposit" /\ resp'.status \in {200, 400} =>
        \A h \in ClientHeaders, c \in ShopCoinInputs :
            (deposit(h, FALSE, c) /\ UNCHANGED Rest) =>
                LET u == h.parts[2].t.sub IN
                IF c \notin Denominations
                THEN /\ resp'.status = 400 /\ resp'.error = "Invalid coin"
                     /\ UNCHANGED store
                ELSE /\ resp'.status = 200
                     /\ users' = [users EXCEPT ![u].deposit = users[u].deposit + c]
                     /\ UNCHANGED <<products, nextUserId, nextProductId>>]_vars

C6_Witness ==
    resp.op = "deposit" /\ resp.status = 200 /\ resp.uid = 1 /\ users[1].deposit = 15

\* C7: reset sets the caller's balance to 0 whatever it was, changes no other
\* balance and no product, and a second reset in a row changes nothing.
C7_Reset ==
    [][resp'.op = "reset" /\ resp'.status = 200 =>
        /\ users'[resp'.uid].deposit = 0
        /\ \A u \in DOMAIN users \ {resp'.uid} : users'[u] = users[u]
        /\ DOMAIN users' = DOMAIN users
        /\ users'[resp'.uid] = [users[resp'.uid] EXCEPT !.deposit = 0]
        /\ UNCHANGED <<products, nextUserId, nextProductId>>
        /\ (resp.op = "reset" /\ resp.status = 200 /\ resp.uid = resp'.uid
               => UNCHANGED store)]_vars

C7_Witness ==
    /\ resp.op = "reset" /\ resp.status = 200 /\ resp.uid = 1
    /\ users[1].deposit = 0 /\ users[2].deposit = 30
    /\ products[1].amount_available = 1

\* C8: deleting a user other than the caller is answered 403, whether or not
\* the target exists, and changes no user; a user row disappears only in a
\* delete_user request whose token subject is that user.
C8_DeleteOther ==
    [][/\ resp'.op = "delete_user" /\ resp'.uid # 0 =>
            \A h \in ClientHeaders, i \in UserIdInputs :
                (delete_user(h, FALSE, i) /\ UNCHANGED Rest /\ h.parts[2].t.sub # i)
                    => /\ resp'.status = 403
                       /\ resp'.error = "Cannot delete another user"
                       /\ UNCHANGED store
       /\ \A u \in DOMAIN users \ DOMAIN users' :
            /\ resp'.op = "delete_user" /\ resp'.status = 200
            /\ resp'.tok.signed /\ resp'.tok.sub = u]_vars

C8_Witness ==
    /\ resp.op = "delete_user" /\ resp.status = 403
    /\ resp.error = "Cannot delete another user"
    /\ Cardinality(DOMAIN users) = 2 /\ resp.uid \in DOMAIN users

\* C10: every balance is a non-negative integer.
C10_BalanceNonNegative ==
    \A u \in DOMAIN users : users[u].deposit \in Nat

C10_Witness ==
    /\ BuyOk(resp) /\ resp.uid \in DOMAIN users
    /\ users[resp.uid].deposit = 0
    /\ \E p \in DOMAIN products : products[p].cost > 0 /\ products[p].amount_available = 0

\* The role set each protected route requires.
RequiredRoles ==
    [list_users |-> {S_seller}, get_user |-> {S_seller, S_buyer},
     delete_user |-> {S_seller, S_buyer}, get_product |-> {S_buyer, S_seller},
     create_product |-> {S_seller}, update_product |-> {S_seller},
     delete_product |-> {S_seller}, deposit |-> {S_buyer}, buy |-> {S_buyer},
     reset |-> {S_buyer}]
Protected(r) == r.op \in DOMAIN RequiredRoles
\* The request was turned away by the wrapper: the route's function never ran.
TurnedAway(r) == r.uid = 0 /\ r.status \in {401, 403, 500}

\* C1 as claimed: a request with a verified token whose role is not in the
\* route's role set is answered 403 and the route's function is not called.
C1_ForbiddenOutsideRoleSet ==
    (/\ Protected(resp) /\ resp.tok.signed /\ resp.at < resp.tok.exp
     /\ resp.tok.role \notin RequiredRoles[resp.op])
        => resp.status = 403 /\ TurnedAway(resp)

\* C9: a token carries exp = iat + 24h; a protected request presenting a
\* validly signed token after its exp is answered 401, the route's function is
\* not called and the tables are unchanged; before its exp, with a role of
\* the route's role set, the route's function is called.
C9_Expiry ==
    [][/\ \A t \in tokens' : t.exp = t.iat + TicksPerDay /\ t.iat <= now'
       /\ (Protected(resp') /\ resp'.tok.signed /\ resp'.tok.exp < resp'.at)
            => /\ resp'.status = 401 /\ resp'.error = "Token is invalid or expired"
               /\ TurnedAway(resp')
               /\ UNCHANGED store
       /\ (/\ Protected(resp') /\ resp'.tok.signed /\ resp'.at < resp'.tok.exp
           /\ resp'.tok.role \in RequiredRoles[resp'.op])
            => ~TurnedAway(resp') /\ resp'.uid = resp'.tok.sub]_vars

C9_Witness ==
    /\ resp.op = "reset" /\ resp.status = 401 /\ resp.tok \in tokens
    /\ resp.tok.role = S_buyer /\ resp.tok.exp < resp.at
    /\ users[resp.tok.sub].deposit > 0

\* C2 as claimed: of two concurrent buys of one unit by two buyers with
\* enough balance, of a product with stock 1, exactly one succeeds, the other
\* is answered "Insufficient products available", and the stock ends at 0.
C2_ExactlyOneBuySucceeds ==
    (/\ \A w \in Workers :
            /\ workers[w].pc = "done" /\ workers[w].op = "buy"
            /\ workers[w].uid \in DOMAIN ConcUsers /\ workers[w].amount = 1
            /\ workers[w].product_id = <<1>>
     /\ \A v, w \in Workers : v # w => workers[v].uid # workers[w].uid)
        => /\ Cardinality({w \in Workers : workers[w].status = 200}) = 1
           /\ \A w \in Workers :
                \/ workers[w].status = 200
                \/ /\ workers[w].status = 400
                   /\ workers[w].error = "Insufficient products available"
           /\ products[1].amount_available = 0

\* C11 as claimed: the stock of every product is >= 0 in every reachable
\* state.
C11_StockNonNegative ==
    \A p \in DOMAIN products : products[p].amount_available >= 0

\* C12 as claimed: the owner of every product is an existing user whose role
\* is seller.
C12_OwnerIsSeller ==
    \A p \in DOMAIN products :
        /\ products[p].seller_id \in DOMAIN users
        /\ users[products[p].seller_id].role = S_seller

C14_PublicRead ==
    [][/\ (list_products /\ UNCHANGED Rest) => resp'.status = 200
       /\ \A i \in ProductIdInputs :
            (i \in DOMAIN products /\ get_product(NoHeader, FALSE, i) /\ UNCHANGED Rest)
                => resp'.status = 200]_vars

\* No two rows of the table hold the same username.
UniqueUsernames(table) ==
    \A i, j \in DOMAIN table : table[i].username = table[j].username => i = j

\* The worker whose request takes this step.
Steps(w) == workers'[w] # workers[w]

RECURSIVE SumFun(_)
SumFun(f) ==
    IF DOMAIN f = {} THEN 0
    ELSE LET x == CHOOSE x \in DOMAIN f : TRUE
         IN f[x] + SumFun([y \in DOMAIN f \ {x} |-> f[y]])

\* What the answered requests of SpecConc account for: coins accepted, money
\* spent and units bought.
Accepted(w) ==
    IF workers[w].op = "deposit" /\ workers[w].status = 200 THEN workers[w].coin ELSE 0
Spent(w) ==
    IF workers[w].op = "buy" /\ workers[w].status = 200
    THEN workers[w].amount * ConcProducts[workers[w].product_id[1]].cost ELSE 0
Units(w) ==
    IF workers[w].op = "buy" /\ workers[w].status = 200 THEN workers[w].amount ELSE 0

\* C20 as claimed: once concurrent deposit and buy requests of one buyer
\* have all been answered, the balance is the initial balance plus the coins
\* accepted minus the cost of the successful buys, and the stock is the
\* initial stock minus the units of the successful buys.
C20_NoLostUpdate ==
    \A u \in DOMAIN ConcUsers :
        (\A w \in Workers :
            /\ workers[w].pc = "done" /\ workers[w].op \in {"deposit", "buy"}
            /\ workers[w].uid = u)
        => /\ users[u].deposit =
                ConcUsers[u].deposit + SumFun([w \in Workers |-> Accepted(w)])
                                     - SumFun([w \in Workers |-> Spent(w)])
           /\ products[1].amount_available =
                ConcProducts[1].amount_available - SumFun([w \in Workers |-> Units(w)])

C18_CheckOrder ==
    [][(resp'.op = "buy" /\ resp'.uid # 0) =>
        \A h \in TokenHeaders, i \in ShopProductInputs, n \in ShopAmountInputs :
            (buy(h, FALSE, i, n) /\ UNCHANGED Rest) =>
                LET u == h.parts[2].t.sub
                    amount == IF n = <<>> THEN 1 ELSE n[1]
                IN
                IF u \notin DOMAIN users
                THEN resp'.status = 404 /\ resp'.error = "User not found"
                ELSE IF i = <<>> \/ i[1] \notin DOMAIN products
                THEN resp'.status = 404 /\ resp'.error = "Product not found"
                ELSE IF products[i[1]].amount_available < amount
                THEN /\ resp'.status = 400
                     /\ resp'.error = "Insufficient products available"
                ELSE IF users[u].deposit < amount * products[i[1]].cost
                THEN resp'.status = 400 /\ resp'.error = "Insufficient funds"
                ELSE resp'.status = 200]_vars

\* Three units asked of a stock of two by a buyer with no money.
C18_Witness ==
    /\ resp.op = "buy" /\ resp.status = 400
    /\ resp.error = "Insufficient products available"
    /\ users[resp.uid].deposit = 0
    /\ products[1].amount_available = 2 /\ products[1].cost = 50

\* C19 as claimed: a successful buy never increases the buyer's balance and
\* never increases the stock of a product.
C19_BuyNeverIncreases ==
    [][BuyOk(resp') =>
        /\ users'[resp'.uid].deposit <= users[resp'.uid].deposit
        /\ \A p \in DOMAIN products :
              products'[p].amount_available <= products[p].amount_available]_vars

====
